---- MODULE Spec2Model ----
(***************************************************************************)
(* Project attribution and privacy filtering of the chat store             *)
(* (db-manager: createFilteredDatabase and its helpers).                   *)
(*                                                                         *)
(* Strings are sequences of tokens: a token is a path separator ("/" or    *)
(* "\\") or a run of characters between separators ("Users", "Foo",        *)
(* "C:").  Substring tests and the path normalisation work on tokens, so   *)
(* a match inside a token is not modelled.  A store is the set of rowids   *)
(* of its rows; rows are scanned in rowid order and a row's key and value  *)
(* are those of the catalogue Rows.  A key is the sequence of its          *)
(* colon-separated segments.                                               *)
(***************************************************************************)
EXTENDS Integers, Sequences, FiniteSets, TLC

\* ------------------------------------------------------------ bounds
\* Largest number of rows of a source store.
MaxRows == 4
\* Largest number of names of an allow-list.
MaxAllowed == 2

\* ------------------------------------------------------------ strings
Foo == <<"Foo">>
Bar == <<"Bar">>
ProjectNames == {Foo, Bar}

PathUsersFoo == <<"/", "Users", "/", "alice", "/", "Foo", "/", "src">>
PathMntBar   == <<"/", "mnt", "/", "c", "/", "Bar", "/", "x">>
PathHomeFoo  == <<"/", "Users", "/", "Foo", "/", "notes">>
PathTmp      == <<"/", "tmp", "/", "x">>
RootFoo      == <<"Foo">>
RootBar      == <<"Bar">>
RootFullFoo  == <<"/", "Users", "/", "alice", "/", "Foo">>

\* JS null / no project.
NoProject == <<>>

\* String.prototype.includes on token strings.
Includes(s, sub) ==
  \E i \in 0..(Len(s) - Len(sub)) : SubSeq(s, i + 1, i + Len(sub)) = sub

\* Array.prototype.includes: membership by equality.
ArrayIncludes(arr, x) == \E i \in 1..Len(arr) : arr[i] = x

\* .replace(/^\/Users\/[^\/]+\//, ''): drops a leading /Users/<user>/ .
StripUsersHome(p) ==
  IF /\ Len(p) >= 5
     /\ p[1] = "/" /\ p[2] = "Users" /\ p[3] = "/" /\ p[4] # "/"
     /\ \E j \in 5..Len(p) : p[j] = "/"
  THEN LET j == CHOOSE k \in 5..Len(p) :
                  p[k] = "/" /\ \A m \in 5..(k - 1) : p[m] # "/"
       IN SubSeq(p, j + 1, Len(p))
  ELSE p

\* .replace(/^\/mnt\/c\//, 'C:\\'): rewrites a leading /mnt/c/ to C:\ .
RewriteMntC(p) ==
  IF Len(p) >= 5 /\ SubSeq(p, 1, 5) = <<"/", "mnt", "/", "c", "/">>
  THEN <<"C:", "\\">> \o SubSeq(p, 6, Len(p))
  ELSE p

\* .replace(/\//g, '\\'): every / becomes \ .
SlashesToBackslashes(p) ==
  [i \in 1..Len(p) |-> IF p[i] = "/" THEN "\\" ELSE p[i]]

NormalizePath(p) == SlashesToBackslashes(RewriteMntC(StripUsersHome(p)))

\* for (const projectName of allowedProjects) if (path.includes(projectName))
\* { projectId = projectName; break }: the first allowed name the normalised
\* path contains, NoProject when there is none.
RECURSIVE FirstNameIn(_, _, _)
FirstNameIn(normalizedPath, allowed, i) ==
  IF i > Len(allowed) THEN NoProject
  ELSE IF Includes(normalizedPath, allowed[i]) THEN allowed[i]
  ELSE FirstNameIn(normalizedPath, allowed, i + 1)

MatchPath(path, allowed) == FirstNameIn(NormalizePath(path), allowed, 1)

\* ------------------------------------------------------------ rows
ConversationIds == {"A", "B", "X"}
FilteredFamilies == {"composerData", "bubbleId", "messageRequestContext"}

\* A value after JSON.parse: kind "unparseable" when JSON.parse throws,
\* "null" for a JSON value that is no object, "object" otherwise.
EmptyObject ==
  [kind |-> "object",
   newlyCreatedFiles |-> <<>>, codeBlockData |-> <<>>,
   fullConversationHeadersOnly |-> <<>>,
   relevantFiles |-> <<>>, attachedFileCodeChunksUris |-> <<>>,
   fileSelections |-> <<>>, projectLayouts |-> <<>>]
Unparseable == [EmptyObject EXCEPT !.kind = "unparseable"]

\* Elements of newlyCreatedFiles: {uri: {path}}, an object without uri, null.
File(p)     == [tag |-> "file", path |-> p]
FileNoUri   == [tag |-> "nouri", path |-> <<>>]
FileNull    == [tag |-> "null", path |-> <<>>]
\* Elements of projectLayouts: a JSON string holding {rootPath}, or a string
\* that is no JSON.
Layout(r)   == [tag |-> "json", rootPath |-> r]
LayoutBad   == [tag |-> "badjson", rootPath |-> <<>>]

\* The catalogue of rows (cursorDiskKV), in rowid order.
Rows ==
  << [key |-> <<"composerData", "A">>,
      value |-> [EmptyObject EXCEPT !.fullConversationHeadersOnly = <<"b1">>]],
     [key |-> <<"composerData", "A">>,
      value |-> [EmptyObject EXCEPT !.newlyCreatedFiles = <<FileNoUri, File(PathMntBar)>>,
                                    !.fullConversationHeadersOnly = <<"b1">>]],
     [key |-> <<"composerData", "A">>,
      value |-> [EmptyObject EXCEPT !.newlyCreatedFiles = <<FileNull>>,
                                    !.fullConversationHeadersOnly = <<"b2", "b1">>]],
     [key |-> <<"composerData", "B">>,
      value |-> [EmptyObject EXCEPT !.codeBlockData = <<PathHomeFoo>>,
                                    !.fullConversationHeadersOnly = <<"b1">>]],
     [key |-> <<"composerData", "B">>, value |-> Unparseable],
     [key |-> <<"bubbleId", "A", "b1">>,
      value |-> [EmptyObject EXCEPT !.relevantFiles = <<PathUsersFoo>>]],
     [key |-> <<"bubbleId", "A", "b1">>,
      value |-> [EmptyObject EXCEPT !.attachedFileCodeChunksUris = <<PathTmp>>,
                                    !.fileSelections = <<PathMntBar>>]],
     [key |-> <<"bubbleId", "B", "b1">>,
      value |-> [EmptyObject EXCEPT !.relevantFiles = <<PathTmp>>]],
     [key |-> <<"bubbleId", "B", "b1">>,
      value |-> [EmptyObject EXCEPT !.attachedFileCodeChunksUris = <<PathUsersFoo>>]],
     [key |-> <<"bubbleId", "X", "b2">>, value |-> Unparseable],
     [key |-> <<"messageRequestContext", "A", "c1">>,
      value |-> [EmptyObject EXCEPT !.projectLayouts = <<Layout(RootFoo), Layout(RootBar)>>]],
     [key |-> <<"messageRequestContext", "A", "c1">>,
      value |-> [EmptyObject EXCEPT !.projectLayouts =
                   <<LayoutBad, Layout(RootFullFoo), Layout(RootBar)>>]],
     [key |-> <<"messageRequestContext", "B", "c1">>, value |-> Unparseable],
     [key |-> <<"messageRequestContext", "X", "c1">>,
      value |-> [EmptyObject EXCEPT !.projectLayouts = <<Layout(RootFoo)>>]],
     [key |-> <<"codeBlockDiff", "B", "d1">>, value |-> EmptyObject],
     [key |-> <<"inlineDiffsData">>, value |-> EmptyObject] >>

RowIds == 1..Len(Rows)
Key(r) == Rows[r].key
Value(r) == Rows[r].value

\* key LIKE '<family>:%'
KeyLike(r, family) == Len(Key(r)) >= 2 /\ Key(r)[1] = family
\* row.key.split(':')[1]
ComposerIdOf(r) == Key(r)[2]
\* row.key.split(':')[2]
BubbleIdOf(r) == Key(r)[3]

\* SELECT ... WHERE key LIKE '<family>:%', as the ascending sequence of rowids.
RECURSIVE SelectFrom(_, _, _)
SelectFrom(db, family, r) ==
  IF r > Len(Rows) THEN <<>>
  ELSE IF r \in db /\ KeyLike(r, family)
       THEN <<r>> \o SelectFrom(db, family, r + 1)
       ELSE SelectFrom(db, family, r + 1)
Select(db, family) == SelectFrom(db, family, 1)

\* Keys are unique in a store (key TEXT UNIQUE).
UniqueKeys(db) == \A r1, r2 \in db : Key(r1) = Key(r2) => r1 = r2

Stores == {db \in SUBSET RowIds : UniqueKeys(db) /\ Cardinality(db) <= MaxRows}

\* Allow-lists: duplicate-free lists of non-empty names, as the config
\* endpoint writes them.
AllowLists ==
  UNION {{l \in [1..n -> ProjectNames] : \A i, j \in 1..n : l[i] = l[j] => i = j}
         : n \in 0..MaxAllowed}

\* ------------------------------------------------------------ attribution
\* Root paths of one messageRequestContext value: the rootPath of every
\* projectLayouts entry that parses; entries that do not parse are skipped.
RECURSIVE RootPathsOf(_, _)
RootPathsOf(layouts, i) ==
  IF i > Len(layouts) THEN <<>>
  ELSE IF layouts[i].tag = "json" /\ layouts[i].rootPath # <<>>
       THEN <<layouts[i].rootPath>> \o RootPathsOf(layouts, i + 1)
       ELSE RootPathsOf(layouts, i + 1)

\* projectLayoutsMap[composerId] || []: the root paths of the context rows
\* of composerId, in row order.
RECURSIVE LayoutsFromRows(_, _, _)
LayoutsFromRows(rows, composerId, i) ==
  IF i > Len(rows) THEN <<>>
  ELSE IF ComposerIdOf(rows[i]) = composerId /\ Value(rows[i]).kind = "object"
       THEN RootPathsOf(Value(rows[i]).projectLayouts, 1)
              \o LayoutsFromRows(rows, composerId, i + 1)
       ELSE LayoutsFromRows(rows, composerId, i + 1)
ProjectLayoutsMap(db, composerId) ==
  LayoutsFromRows(Select(db, "messageRequestContext"), composerId, 1)

\* The bubble ids bubbleMap has an entry for.
BubbleMapKeys(db) ==
  {BubbleIdOf(r) : r \in {q \in db : KeyLike(q, "bubbleId") /\ Value(q).kind = "object"}}

\* A bubble index keyed by conversation and bubble id (not what the code builds).
BubbleRowScoped(db, composerId, bubbleId) ==
  LET own == {r \in db : /\ KeyLike(r, "bubbleId") /\ Value(r).kind = "object"
                         /\ BubbleIdOf(r) = bubbleId /\ ComposerIdOf(r) = composerId}
  IN IF own = {} THEN 0 ELSE CHOOSE r \in own : \A q \in own : q <= r

\* bubbleMap[bubbleId] = bubble, for every bubbleId: row in row order: the
\* entry is the last parseable row whose key's third segment is bubbleId,
\* whatever its conversation.  0 when there is no entry.
BubbleRow(db, composerId, bubbleId) ==
  LET rows == {r \in db : /\ KeyLike(r, "bubbleId") /\ Value(r).kind = "object"
                          /\ BubbleIdOf(r) = bubbleId}
  IN IF rows = {} THEN 0 ELSE CHOOSE r \in rows : \A q \in rows : q <= r

\* Step 1 with substring semantics (not what the code does).
RECURSIVE FirstContainingRoot(_, _, _)
FirstContainingRoot(layouts, allowed, i) ==
  IF i > Len(layouts) THEN NoProject
  ELSE IF FirstNameIn(layouts[i], allowed, 1) # NoProject
       THEN FirstNameIn(layouts[i], allowed, 1)
  ELSE FirstContainingRoot(layouts, allowed, i + 1)

\* Step 1: the first root path that is an element of the allow-list.
RECURSIVE FirstAllowedRoot(_, _, _)
FirstAllowedRoot(layouts, allowed, i) ==
  IF i > Len(layouts) THEN NoProject
  ELSE IF ArrayIncludes(allowed, layouts[i]) THEN layouts[i]
  ELSE FirstAllowedRoot(layouts, allowed, i + 1)

StepProjectLayouts(layouts, allowed) == FirstAllowedRoot(layouts, allowed, 1)

\* The first hit over a list of path strings.
RECURSIVE FirstPathMatch(_, _, _)
FirstPathMatch(paths, allowed, i) ==
  IF i > Len(paths) THEN NoProject
  ELSE IF MatchPath(paths[i], allowed) # NoProject THEN MatchPath(paths[i], allowed)
  ELSE FirstPathMatch(paths, allowed, i + 1)

\* Step 2, newlyCreatedFiles: [threw, project].  file.uri of a null element
\* throws a TypeError; an element without uri is skipped.
RECURSIVE NewlyCreatedFilesFrom(_, _, _)
NewlyCreatedFilesFrom(files, allowed, i) ==
  IF i > Len(files) THEN [threw |-> FALSE, project |-> NoProject]
  ELSE IF files[i].tag = "null" THEN [threw |-> TRUE, project |-> NoProject]
  ELSE IF files[i].tag = "file" /\ MatchPath(files[i].path, allowed) # NoProject
       THEN [threw |-> FALSE, project |-> MatchPath(files[i].path, allowed)]
  ELSE NewlyCreatedFilesFrom(files, allowed, i + 1)
StepNewlyCreatedFiles(files, allowed) == NewlyCreatedFilesFrom(files, allowed, 1)

\* Step 3, the keys of codeBlockData.
StepCodeBlockData(paths, allowed) == FirstPathMatch(paths, allowed, 1)

\* Step 4 for one bubble: relevantFiles, then attachedFileCodeChunksUris,
\* then context.fileSelections.
BubbleMatch(bubble, allowed) ==
  LET rel == FirstPathMatch(bubble.relevantFiles, allowed, 1)
      att == FirstPathMatch(bubble.attachedFileCodeChunksUris, allowed, 1)
      sel == FirstPathMatch(bubble.fileSelections, allowed, 1)
  IN IF rel # NoProject THEN rel ELSE IF att # NoProject THEN att ELSE sel

\* Step 4, over the headers in order.
RECURSIVE BubblesFrom(_, _, _, _, _)
BubblesFrom(db, composerId, headers, allowed, i) ==
  IF i > Len(headers) THEN NoProject
  ELSE LET r == BubbleRow(db, composerId, headers[i])
           hit == IF r = 0 THEN NoProject ELSE BubbleMatch(Value(r), allowed)
       IN IF hit # NoProject THEN hit
          ELSE BubblesFrom(db, composerId, headers, allowed, i + 1)
StepBubbles(db, composerId, headers, allowed) ==
  BubblesFrom(db, composerId, headers, allowed, 1)

\* The cascade run the other way round: file paths before projectLayouts.
DetermineProjectFilesFirst(db, r, allowed) ==
  LET composerData == Value(r)
      none == [outcome |-> "skipped", project |-> NoProject, step |-> 0]
  IN IF composerData.kind # "object" THEN none
     ELSE LET s2 == StepNewlyCreatedFiles(composerData.newlyCreatedFiles, allowed)
              s1 == StepProjectLayouts(ProjectLayoutsMap(db, ComposerIdOf(r)), allowed)
          IN IF s2.project # NoProject
             THEN [outcome |-> "matched", project |-> s2.project, step |-> 2]
             ELSE IF s1 # NoProject
             THEN [outcome |-> "matched", project |-> s1, step |-> 1]
             ELSE [outcome |-> "unattributed", project |-> NoProject, step |-> 0]

\* The body of the loop over composerData rows, for row r: the value of
\* projectId when the iteration ends, with the step that set it.
\*   outcome "skipped": the value does not parse or is no object;
\*           "threw": a TypeError ended the iteration in its catch;
\*           "matched" / "unattributed": projectId set / left null.
DetermineProject(db, r, allowed) ==
  LET composerData == Value(r)
      composerId == ComposerIdOf(r)
      res(o, p, s) == [outcome |-> o, project |-> p, step |-> s]
  IN IF composerData.kind # "object" THEN res("skipped", NoProject, 0)
     ELSE LET s1 == StepProjectLayouts(ProjectLayoutsMap(db, composerId), allowed)
          IN IF s1 # NoProject THEN res("matched", s1, 1)
     ELSE LET s2 == StepNewlyCreatedFiles(composerData.newlyCreatedFiles, allowed)
          IN IF s2.threw THEN res("threw", NoProject, 2)
             ELSE IF s2.project # NoProject THEN res("matched", s2.project, 2)
     ELSE LET s3 == StepCodeBlockData(composerData.codeBlockData, allowed)
          IN IF s3 # NoProject THEN res("matched", s3, 3)
     ELSE LET s4 == StepBubbles(db, composerId,
                                composerData.fullConversationHeadersOnly, allowed)
          IN IF s4 # NoProject THEN res("matched", s4, 4)
             ELSE res("unattributed", NoProject, 0)

NotProcessed == [outcome |-> "none", project |-> NoProject, step |-> 0]

\* projectId of every conversation that has a composerData row.
Attribution(db, allowed) ==
  [c \in ConversationIds |->
     LET rows == {r \in db : KeyLike(r, "composerData") /\ ComposerIdOf(r) = c}
     IN IF rows = {} THEN NotProcessed
        ELSE DetermineProject(db, CHOOSE r \in rows : TRUE, allowed)]

\* allowedComposerIds after the loop.
AllowedComposerIds(db, allowed) ==
  {c \in ConversationIds : Attribution(db, allowed)[c].outcome = "matched"}

\* ------------------------------------------------------------ deletes
\* Keys of the family whose conversation id is not allowed.
RowsOfFamily(db, family) == {r \in db : KeyLike(r, family)}

\* DELETE ... WHERE key LIKE 'composerData:%' AND key NOT IN ('composerData:<id>', ...)
ComposerRowsToDelete(db, ids) ==
  {r \in RowsOfFamily(db, "composerData") :
     ~ \E id \in ids : Key(r) = <<"composerData", id>>}

\* A cleanup that only removes the records of conversations that still have
\* a composerData: record, and so keeps orphans.
FamilyRowsToDeleteKeepingOrphans(db, family, ids) ==
  {r \in RowsOfFamily(db, family) :
     /\ ComposerIdOf(r) \notin ids
     /\ \E c \in RowsOfFamily(db, "composerData") : ComposerIdOf(c) = ComposerIdOf(r)}

\* The loop of deleteStmt.run(row.key) over the rows of a family whose
\* key's second segment is not in allowedComposerIds.
FamilyRowsToDelete(db, family, ids) ==
  {r \in RowsOfFamily(db, family) : ComposerIdOf(r) \notin ids}

\* A delete-all that forgets one family.
AllRowsToDeleteButContexts(db) ==
  RowsOfFamily(db, "composerData") \cup RowsOfFamily(db, "bubbleId")

\* A delete-all that also takes the codeBlockDiff: records.
AllRowsToDeleteWithDiffs(db) ==
  RowsOfFamily(db, "composerData") \cup RowsOfFamily(db, "bubbleId")
    \cup RowsOfFamily(db, "messageRequestContext") \cup RowsOfFamily(db, "codeBlockDiff")

\* DELETE ... WHERE key LIKE 'composerData:%' OR key LIKE 'bubbleId:%'
\*   OR key LIKE 'messageRequestContext:%'
AllRowsToDelete(db) ==
  RowsOfFamily(db, "composerData") \cup RowsOfFamily(db, "bubbleId")
    \cup RowsOfFamily(db, "messageRequestContext")

\* ------------------------------------------------------------ state
VARIABLES
  shadowDb,            \* rows of the file at shadowDbPath (the source of the pass)
  allowedProjects,     \* the allow-list argument
  filteredDb,          \* rows of the file at filteredDbPath
  filteredExists,      \* the file at filteredDbPath exists
  pc,                  \* the step createFilteredDatabase is at
  totalCount,          \* totalCount.count
  deletedCount,        \* deletedCount
  remainingCount,      \* remainingCount
  attribution,         \* projectId of each conversation when its iteration ended
  allowedComposerIds,  \* allowedComposerIds
  vacuumed,            \* VACUUM has run
  dbOpen,              \* the connection to the filtered store is open
  raised,              \* the steps at which an exception was raised
  result,              \* "pending", or the boolean returned: "true" / "false"
  run,                 \* number of the pass over shadowDb
  previous,            \* result and surviving rows of the pass before this one
  originalDb,          \* rows of the file at originalDbPath (the IDE's store)
  originalExists,      \* the file at originalDbPath exists
  shadowExists,        \* the file at shadowDbPath exists
  tempDirExists,       \* the directory .temp/db exists
  configFile,          \* content of config.json
  cachedDbPath,        \* the module variable cachedDbPath
  mpc,                 \* the step getShadowDbPath is at
  call,                \* what the call in progress (or the last one) has done
  returned,            \* what the last call of getShadowDbPath returned
  request,             \* body of the last request to the config route
  response,            \* status of the response to it
  reply,               \* the config sent back in that response
  rpc,                 \* where the list/search request is
  rpath                \* globalDbPath of the list/search request

vars == <<shadowDb, allowedProjects, filteredDb, filteredExists, pc, totalCount,
          deletedCount, remainingCount, attribution, allowedComposerIds,
          vacuumed, dbOpen, raised, result, run, previous,
          originalDb, originalExists, shadowExists, tempDirExists, configFile,
          cachedDbPath, mpc, call, returned, request, response, reply,
          rpc, rpath>>

\* What createFilteredDatabase never assigns: its arguments, and the files and
\* module state of its caller.
manager == <<originalDb, originalExists, shadowExists, tempDirExists, configFile,
             cachedDbPath, mpc, call, returned, request, response, reply,
          rpc, rpath>>
inputs == <<shadowDb, allowedProjects, manager>>
exchange == <<request, response, reply>>
reader == <<rpc, rpath>>
history == <<run, previous>>

NoAttribution == [c \in ConversationIds |-> NotProcessed]
NoPrevious == [result |-> "none", db |-> {}, raised |-> {}]

\* cachedDbPath = null; the other values are "original", "shadow", "filtered".
NoPath == "null"

\* A JSON array element: a string, or a number (7, by its decimal digits).
Str(s) == [t |-> "string", s |-> s]
Seven == [t |-> "number", s |-> <<"7">>]

\* The content of config.json, or the body of a request: what JSON.parse makes
\* of it (kind), and the type and elements of its allowedProjects property.
Json(kind, type, items) == [kind |-> kind, type |-> type, items |-> items]
ArrayOf(names) == Json("object", "array", [i \in 1..Len(names) |-> Str(names[i])])

\* What a call has done so far: which entry point (op), whether the cache
\* named an existing file on entry, whether the source was copied, what the
\* filter returned, and the step whose exception the catch of getShadowDbPath
\* took.
CallOf(op, hadCache) ==
  [op |-> op, hadCache |-> hadCache, copied |-> FALSE, filter |-> "none",
   caught |-> "none"]
NoCall == CallOf("none", FALSE)
NoRequest == Json("none", "undefined", <<>>)

Init ==
  /\ shadowDb \in Stores
  /\ allowedProjects \in AllowLists
  /\ filteredDb = {}
  /\ filteredExists = FALSE
  /\ pc = "copy"
  /\ totalCount = 0
  /\ deletedCount = 0
  /\ remainingCount = 0
  /\ attribution = NoAttribution
  /\ allowedComposerIds = {}
  /\ vacuumed = FALSE
  /\ dbOpen = FALSE
  /\ raised = {}
  /\ result = "pending"
  /\ run = 1
  /\ previous = NoPrevious
  /\ originalDb = shadowDb
  /\ originalExists = TRUE
  /\ shadowExists = TRUE
  /\ tempDirExists = TRUE
  /\ configFile = ArrayOf(allowedProjects)
  /\ cachedDbPath = NoPath
  /\ mpc = "filter"
  /\ call = [CallOf("get", FALSE) EXCEPT !.copied = TRUE]
  /\ returned = "none"
  /\ request = NoRequest
  /\ response = "none"
  /\ reply = NoRequest
  /\ rpc = "idle"
  /\ rpath = "none"

\* A handler that logs and throws again.
Rethrow(step) ==
  /\ raised' = raised \cup {step}
  /\ result' = "threw"
  /\ pc' = "returned"

\* catch (error) { ...; return false }
Catch(step) ==
  /\ raised' = raised \cup {step}
  /\ result' = "false"
  /\ pc' = "returned"

\* A copy that keeps a destination file that is already there.
CopyFileIfAbsent(src, dst, dstExists) == IF dstExists THEN dst ELSE src

\* fs.copyFileSync(src, dst): the content of dst afterwards.
CopyFile(src, dst, dstExists) == src

\* The filter running whatever the allow-list.
FilteringAlways(allowed) == TRUE

\* allowedProjects.length > 0
FilteringEnabled(allowed) == Len(allowed) > 0

\* 1. fs.copyFileSync(shadowDbPath, filteredDbPath)
Copy ==
  /\ pc = "copy"
  /\ \/ /\ filteredDb' = CopyFile(shadowDb, filteredDb, filteredExists)
        /\ filteredExists' = TRUE
        /\ pc' = "open"
        /\ UNCHANGED <<raised, result>>
     \/ /\ Catch("copy")
        /\ UNCHANGED <<filteredDb, filteredExists>>
  /\ UNCHANGED <<inputs, history, totalCount, deletedCount, remainingCount,
                 attribution, allowedComposerIds, vacuumed, dbOpen>>

\* 2. new Database(filteredDbPath)
Open ==
  /\ pc = "open"
  /\ \/ /\ dbOpen' = TRUE
        /\ pc' = "count"
        /\ UNCHANGED <<raised, result>>
     \/ /\ Catch("open")
        /\ UNCHANGED dbOpen
  /\ UNCHANGED <<inputs, history, filteredDb, filteredExists, totalCount,
                 deletedCount, remainingCount, attribution, allowedComposerIds,
                 vacuumed>>

\* 3. SELECT COUNT(*); then the branch on allowedProjects.length > 0
BaselineCount ==
  /\ pc = "count"
  /\ \/ /\ totalCount' = Cardinality(filteredDb)
        /\ pc' = IF FilteringEnabled(allowedProjects) THEN "attribute" ELSE "vacuum"
        /\ UNCHANGED <<raised, result>>
     \/ /\ Catch("count")
        /\ UNCHANGED totalCount
  /\ UNCHANGED <<inputs, history, filteredDb, filteredExists, deletedCount,
                 remainingCount, attribution, allowedComposerIds, vacuumed, dbOpen>>

\* JSON.parse or a property access threw inside one of the local try blocks
\* of the attribution pass.
LocalParseError(db, allowed) ==
  \/ \E r \in db : /\ \/ KeyLike(r, "messageRequestContext")
                      \/ KeyLike(r, "bubbleId")
                      \/ KeyLike(r, "composerData")
                   /\ Value(r).kind = "unparseable"
  \/ \E r \in RowsOfFamily(db, "messageRequestContext") :
        /\ Value(r).kind = "object"
        /\ \E i \in 1..Len(Value(r).projectLayouts) :
              Value(r).projectLayouts[i].tag = "badjson"
  \/ \E c \in ConversationIds : Attribution(db, allowed)[c].outcome = "threw"

\* 4. the attribution pass: projectLayoutsMap, bubbleMap, the loop over the
\* composerData rows; then the branch on allowedComposerIds.size > 0
Attribute ==
  /\ pc = "attribute"
  /\ \/ /\ attribution' = Attribution(filteredDb, allowedProjects)
        /\ allowedComposerIds' = AllowedComposerIds(filteredDb, allowedProjects)
        /\ raised' = IF LocalParseError(filteredDb, allowedProjects)
                     THEN raised \cup {"parse"} ELSE raised
        /\ pc' = IF AllowedComposerIds(filteredDb, allowedProjects) # {}
                 THEN "deleteComposer" ELSE "deleteAll"
        /\ UNCHANGED result
     \/ /\ Catch("select")
        /\ UNCHANGED <<attribution, allowedComposerIds>>
  /\ UNCHANGED <<inputs, history, filteredDb, filteredExists, totalCount,
                 deletedCount, remainingCount, vacuumed, dbOpen>>

\* 5a. the composerData delete, in its own try/catch: a failure is logged
\* and the pass goes on.
DeleteComposer ==
  /\ pc = "deleteComposer"
  /\ \/ /\ filteredDb' = filteredDb \ ComposerRowsToDelete(filteredDb, allowedComposerIds)
        /\ deletedCount' = deletedCount
                             + Cardinality(ComposerRowsToDelete(filteredDb, allowedComposerIds))
        /\ UNCHANGED raised
     \/ /\ raised' = raised \cup {"deleteComposer"}
        /\ UNCHANGED <<filteredDb, deletedCount>>
  /\ pc' = "deleteBubbles"
  /\ UNCHANGED <<inputs, history, filteredExists, totalCount, remainingCount,
                 attribution, allowedComposerIds, vacuumed, dbOpen, result>>

\* A transaction that keeps the deletes made before the exception.
NotRolledBack(before, partly) == partly

\* db.transaction(fn)() when fn throws after some of its deletes: the store
\* is as it was before the transaction.
RolledBack(before, partly) == before

\* 5b. the bubbleId transaction: a failure, after any number of its deletes,
\* rolls it back and reaches the outer catch.
DeleteBubbles ==
  /\ pc = "deleteBubbles"
  /\ \/ /\ filteredDb' = filteredDb \ FamilyRowsToDelete(filteredDb, "bubbleId", allowedComposerIds)
        /\ pc' = "deleteContexts"
        /\ UNCHANGED <<raised, result>>
     \/ /\ Catch("deleteBubbles")
        /\ \E done \in SUBSET FamilyRowsToDelete(filteredDb, "bubbleId", allowedComposerIds) :
              filteredDb' = RolledBack(filteredDb, filteredDb \ done)
  /\ UNCHANGED <<inputs, history, filteredExists, totalCount, deletedCount,
                 remainingCount, attribution, allowedComposerIds, vacuumed, dbOpen>>

\* 5c. the messageRequestContext transaction
DeleteContexts ==
  /\ pc = "deleteContexts"
  /\ \/ /\ filteredDb' = filteredDb
                \ FamilyRowsToDelete(filteredDb, "messageRequestContext", allowedComposerIds)
        /\ pc' = "vacuum"
        /\ UNCHANGED <<raised, result>>
     \/ /\ Catch("deleteContexts")
        /\ \E done \in SUBSET FamilyRowsToDelete(filteredDb, "messageRequestContext",
                                                 allowedComposerIds) :
              filteredDb' = RolledBack(filteredDb, filteredDb \ done)
  /\ UNCHANGED <<inputs, history, filteredExists, totalCount, deletedCount,
                 remainingCount, attribution, allowedComposerIds, vacuumed, dbOpen>>

\* 5d. no allowed composer: the delete-all statement
DeleteAll ==
  /\ pc = "deleteAll"
  /\ \/ /\ filteredDb' = filteredDb \ AllRowsToDelete(filteredDb)
        /\ deletedCount' = deletedCount + Cardinality(AllRowsToDelete(filteredDb))
        /\ pc' = "vacuum"
        /\ UNCHANGED <<raised, result>>
     \/ /\ Catch("deleteAll")
        /\ UNCHANGED <<filteredDb, deletedCount>>
  /\ UNCHANGED <<inputs, history, filteredExists, totalCount, remainingCount,
                 attribution, allowedComposerIds, vacuumed, dbOpen>>

\* 7. db.exec('VACUUM')
Vacuum ==
  /\ pc = "vacuum"
  /\ \/ /\ vacuumed' = TRUE
        /\ pc' = "finalCount"
        /\ UNCHANGED <<raised, result>>
     \/ /\ Catch("vacuum")
        /\ UNCHANGED vacuumed
  /\ UNCHANGED <<inputs, history, filteredDb, filteredExists, totalCount,
                 deletedCount, remainingCount, attribution, allowedComposerIds,
                 dbOpen>>

\* 8. the final count, db.close(), return true
FinalCount ==
  /\ pc = "finalCount"
  /\ \/ /\ remainingCount' = Cardinality(filteredDb)
        /\ dbOpen' = FALSE
        /\ result' = "true"
        /\ pc' = "returned"
        /\ UNCHANGED raised
     \/ /\ Catch("finalCount")
        /\ UNCHANGED <<remainingCount, dbOpen>>
  /\ UNCHANGED <<inputs, history, filteredDb, filteredExists, totalCount,
                 deletedCount, attribution, allowedComposerIds, vacuumed>>

Next ==
  \/ Copy
  \/ Open
  \/ BaselineCount
  \/ Attribute
  \/ DeleteComposer
  \/ DeleteBubbles
  \/ DeleteContexts
  \/ DeleteAll
  \/ Vacuum
  \/ FinalCount

Spec == Init /\ [][Next]_vars

\* A second call with the same arguments, after the first has returned.
RunAgain ==
  /\ pc = "returned"
  /\ run = 1
  /\ previous' = [result |-> result, db |-> filteredDb, raised |-> raised]
  /\ run' = 2
  /\ pc' = "copy"
  /\ totalCount' = 0
  /\ deletedCount' = 0
  /\ remainingCount' = 0
  /\ attribution' = NoAttribution
  /\ allowedComposerIds' = {}
  /\ vacuumed' = FALSE
  /\ dbOpen' = FALSE
  /\ raised' = {}
  /\ result' = "pending"
  /\ UNCHANGED <<inputs, filteredDb, filteredExists>>

NextTwice == Next \/ RunAgain

SpecTwice == Init /\ [][NextTwice]_vars

\* A second call with the same allow-list whose source is the store the
\* first call produced, after the first has returned true.
RunOnOutput ==
  /\ pc = "returned"
  /\ run = 1
  /\ result = "true"
  /\ shadowDb' = filteredDb
  /\ previous' = [result |-> result, db |-> filteredDb, raised |-> raised]
  /\ run' = 2
  /\ pc' = "copy"
  /\ totalCount' = 0
  /\ deletedCount' = 0
  /\ remainingCount' = 0
  /\ attribution' = NoAttribution
  /\ allowedComposerIds' = {}
  /\ vacuumed' = FALSE
  /\ dbOpen' = FALSE
  /\ raised' = {}
  /\ result' = "pending"
  /\ UNCHANGED <<allowedProjects, manager, filteredDb, filteredExists>>

NextOnOutput == Next \/ RunOnOutput

SpecOnOutput == Init /\ [][NextOnOutput]_vars

\* ------------------------------------------------------------ shadow store manager
\* Contents the IDE's store takes.
ManagerStores == {{}, {1, 6, 11, 16}, {1, 4, 6, 11}, {4, 8, 15}, {3, 6, 14}}

\* Contents of config.json: no file, text that is not JSON, the JSON values
\* null and 5, an object without allowedProjects, an object whose
\* allowedProjects is a string or an array holding a number, and the
\* arrays of names the config endpoint writes.
ConfigFiles ==
  {Json("absent", "undefined", <<>>), Json("unparseable", "undefined", <<>>),
   Json("null", "undefined", <<>>), Json("scalar", "undefined", <<>>),
   Json("object", "undefined", <<>>), Json("object", "string", <<>>),
   Json("object", "array", <<Seven>>)}
  \cup {ArrayOf(l) : l \in AllowLists}

\* The value getAllowedProjects returns, as [type, items]: [] when the file is
\* absent, when JSON.parse throws, when reading a property of null throws and
\* when allowedProjects is undefined; otherwise config.allowedProjects as it
\* is, array or not.
EmptyArray == [type |-> "array", items |-> <<>>]
GetAllowedProjects(config) ==
  IF config.kind = "object" /\ config.type # "undefined"
    THEN [type |-> config.type, items |-> config.items]
    ELSE EmptyArray

\* The names createFilteredDatabase receives. A number in the array takes
\* part in String.includes through its digits.
NamesOf(items) == [i \in 1..Len(items) |-> items[i].s]

\* A cache test that never hits.
CacheNeverValid(path, shadow, filtered) == FALSE

\* cachedDbPath && fs.existsSync(cachedDbPath)
CacheValid(path, shadow, filtered) ==
  \/ path = "shadow" /\ shadow
  \/ path = "filtered" /\ filtered

\* A reset that leaves the cache as it is.
CacheKeptOnReset == cachedDbPath

\* resetShadowDb: cachedDbPath = null
CacheAfterReset == NoPath

\* An unlink of the source store.
UnlinkSource == "original"

\* The file fs.unlinkSync removes after a successful filter pass.
UnlinkTarget == "shadow"

\* A manager that serves the shadow copy whatever the filter returned.
PathAlwaysShadow(success) == "shadow"

\* A manager that serves the filtered copy whatever the filter returned.
PathAlwaysFiltered(success) == "filtered"

\* A manager that caches the source path.
PathAlwaysOriginal(success) == "original"

\* The path cached and returned after createFilteredDatabase has returned.
PathAfterFilter(success) == IF success THEN "filtered" ELSE "shadow"

\* A manager that serves the source store when there is nothing to filter.
PathSourceWhenUnfiltered == "original"

\* The path cached and returned when the allow-list is empty.
PathWhenUnfiltered == "shadow"

ManagerInit ==
  /\ originalExists \in BOOLEAN
  /\ originalDb \in IF originalExists THEN ManagerStores ELSE {{}}
  /\ configFile \in ConfigFiles
  /\ shadowDb = {}
  /\ shadowExists = FALSE
  /\ filteredDb = {}
  /\ filteredExists = FALSE
  /\ tempDirExists = FALSE
  /\ cachedDbPath = NoPath
  /\ mpc = "idle"
  /\ call = NoCall
  /\ returned = "none"
  /\ request = NoRequest
  /\ response = "none"
  /\ reply = NoRequest
  /\ rpc = "idle"
  /\ rpath = "none"
  /\ allowedProjects = <<>>
  /\ pc = "idle"
  /\ totalCount = 0
  /\ deletedCount = 0
  /\ remainingCount = 0
  /\ attribution = NoAttribution
  /\ allowedComposerIds = {}
  /\ vacuumed = FALSE
  /\ dbOpen = FALSE
  /\ raised = {}
  /\ result = "pending"
  /\ run = 1
  /\ previous = NoPrevious

files == <<originalDb, originalExists, shadowDb, shadowExists, filteredDb,
           filteredExists, tempDirExists>>
locals == <<allowedProjects, pc, totalCount, deletedCount, remainingCount,
            attribution, allowedComposerIds, vacuumed, dbOpen, raised, result>>

\* The call returns path.
Return(path) ==
  /\ returned' = path
  /\ mpc' = "idle"

\* catch (error) { ...; return originalDbPath }
ManagerCatch(step) ==
  /\ call' = [call EXCEPT !.caught = step]
  /\ Return("original")

\* An event loop that starts a handler whatever is running.
EventLoopAlwaysFree == TRUE

\* A request handler starts, or goes on after an await, only when no
\* synchronous code is running: getShadowDbPath, resetShadowDb and
\* createFilteredDatabase have no await, so a call of theirs is over, and
\* the caller has reached its next await or its end, before that.
EventLoopFree == mpc = "idle" /\ rpc # "calling"

\* The first statement of getShadowDbPath, entered with cachedDbPath = cache:
\* return the cached path, or go on to derive.
Enter(op, cache) ==
  /\ cachedDbPath' = cache
  /\ call' = CallOf(op, CacheValid(cachedDbPath, shadowExists, filteredExists))
  /\ IF CacheValid(cache, shadowExists, filteredExists)
       THEN Return(cache)
       ELSE /\ returned' = "none"
            /\ mpc' = "mkdir"
  /\ request' = NoRequest
  /\ response' = "none"
  /\ reply' = NoRequest
  /\ UNCHANGED <<files, configFile, locals, history>>

\* A request handler calls getShadowDbPath().
GetShadowDbPath ==
  /\ EventLoopFree
  /\ Enter("get", cachedDbPath)
  /\ UNCHANGED reader

\* The refresh endpoint calls resetShadowDb(): cachedDbPath = null, then
\* getShadowDbPath().
ResetShadowDb ==
  /\ EventLoopFree
  /\ Enter("reset", CacheAfterReset)
  /\ UNCHANGED reader

\* if (!fs.existsSync(tempDir)) fs.mkdirSync(tempDir, { recursive: true }),
\* before the try block: an exception of mkdirSync leaves getShadowDbPath.
MakeTempDir ==
  /\ mpc = "mkdir"
  /\ \/ /\ tempDirExists' = TRUE
        /\ mpc' = "source"
        /\ UNCHANGED returned
     \/ /\ ~tempDirExists
        /\ Return("threw")
        /\ UNCHANGED tempDirExists
  /\ UNCHANGED <<originalDb, originalExists, shadowDb, shadowExists, filteredDb,
                 filteredExists, configFile, cachedDbPath, call, exchange,
                 locals, history, reader>>

\* if (fs.existsSync(originalDbPath)) fs.copyFileSync(originalDbPath,
\* shadowDbPath), else return originalDbPath.
CopySource ==
  /\ mpc = "source"
  /\ IF originalExists
       THEN \/ /\ shadowDb' = CopyFile(originalDb, shadowDb, shadowExists)
               /\ shadowExists' = TRUE
               /\ call' = [call EXCEPT !.copied = TRUE]
               /\ mpc' = "config"
               /\ UNCHANGED returned
            \/ /\ ManagerCatch("copy")
               /\ UNCHANGED <<shadowDb, shadowExists>>
       ELSE /\ Return("original")
            /\ UNCHANGED <<shadowDb, shadowExists, call>>
  /\ UNCHANGED <<originalDb, originalExists, filteredDb, filteredExists,
                 tempDirExists, configFile, cachedDbPath, exchange, reader,
                 locals,
                 history>>

\* allowedProjects = getAllowedProjects(); the log line calls
\* allowedProjects.join, which throws when the value is not an array; then
\* the branch on allowedProjects.length > 0: call createFilteredDatabase, or
\* cache and return the shadow path.
ReadAllowList ==
  /\ mpc = "config"
  /\ LET allowed == GetAllowedProjects(configFile) IN
       IF allowed.type # "array"
         THEN /\ ManagerCatch("join")
              /\ UNCHANGED <<cachedDbPath, allowedProjects, pc>>
         ELSE IF Len(allowed.items) > 0
           THEN /\ allowedProjects' = NamesOf(allowed.items)
                /\ pc' = "copy"
                /\ mpc' = "filter"
                /\ UNCHANGED <<cachedDbPath, call, returned>>
           ELSE /\ cachedDbPath' = PathWhenUnfiltered
                /\ Return(PathWhenUnfiltered)
                /\ UNCHANGED <<call, allowedProjects, pc>>
  /\ UNCHANGED <<files, configFile, exchange, reader, totalCount, deletedCount,
                 remainingCount, attribution, allowedComposerIds, vacuumed,
                 dbOpen, raised, result, history>>

\* fs.unlinkSync(target)
Unlink(target) ==
  /\ shadowExists' = (shadowExists /\ target # "shadow")
  /\ shadowDb' = IF target = "shadow" THEN {} ELSE shadowDb
  /\ originalExists' = (originalExists /\ target # "original")
  /\ originalDb' = IF target = "original" THEN {} ELSE originalDb

\* createFilteredDatabase has returned: on success unlink the shadow file,
\* cache and return the filtered path (an exception of unlinkSync reaches
\* the catch); on failure cache and return the shadow path.
AfterFilter ==
  /\ mpc = "filter"
  /\ pc = "returned"
  /\ \/ /\ result = "true"
        /\ \/ /\ Unlink(UnlinkTarget)
              /\ cachedDbPath' = PathAfterFilter(TRUE)
              /\ Return(PathAfterFilter(TRUE))
              /\ call' = [call EXCEPT !.filter = "true"]
           \/ /\ call' = [call EXCEPT !.filter = "true", !.caught = "unlink"]
              /\ Return("original")
              /\ UNCHANGED <<originalDb, originalExists, shadowDb, shadowExists,
                             cachedDbPath>>
     \/ /\ result = "false"
        /\ cachedDbPath' = PathAfterFilter(FALSE)
        /\ Return(PathAfterFilter(FALSE))
        /\ call' = [call EXCEPT !.filter = "false"]
        /\ UNCHANGED <<originalDb, originalExists, shadowDb, shadowExists>>
     \/ /\ result = "threw"
        /\ call' = [call EXCEPT !.filter = "threw", !.caught = "filter"]
        /\ Return("original")
        /\ UNCHANGED <<originalDb, originalExists, shadowDb, shadowExists,
                       cachedDbPath>>
  /\ allowedProjects' = <<>>
  /\ pc' = "idle"
  /\ totalCount' = 0
  /\ deletedCount' = 0
  /\ remainingCount' = 0
  /\ attribution' = NoAttribution
  /\ allowedComposerIds' = {}
  /\ vacuumed' = FALSE
  /\ dbOpen' = FALSE
  /\ raised' = {}
  /\ result' = "pending"
  /\ UNCHANGED <<filteredDb, filteredExists, tempDirExists, configFile,
                 exchange, history, reader>>

\* The IDE writes its store.
IdeWrite ==
  /\ mpc = "idle"
  /\ \E db \in ManagerStores :
        /\ ~originalExists \/ db # originalDb
        /\ originalDb' = db
  /\ originalExists' = TRUE
  /\ call' = CallOf("ide", FALSE)
  /\ returned' = "none"
  /\ request' = NoRequest
  /\ response' = "none"
  /\ reply' = NoRequest
  /\ UNCHANGED <<shadowDb, shadowExists, filteredDb, filteredExists,
                 tempDirExists, configFile, cachedDbPath, mpc, locals, history,
                 reader>>

\* Somebody removes the directory .temp/db with the files in it.
RemoveTemp ==
  /\ mpc = "idle"
  /\ tempDirExists
  /\ tempDirExists' = FALSE
  /\ shadowExists' = FALSE
  /\ shadowDb' = {}
  /\ filteredExists' = FALSE
  /\ filteredDb' = {}
  /\ call' = CallOf("rm", FALSE)
  /\ returned' = "none"
  /\ request' = NoRequest
  /\ response' = "none"
  /\ reply' = NoRequest
  /\ UNCHANGED <<originalDb, originalExists, configFile, cachedDbPath, mpc,
                 locals, history, reader>>

\* ------------------------------------------------------------ config endpoint
MaxItems == 2

Blank == <<" ">>
PaddedFoo == <<" ">> \o Foo \o <<" ">>

\* Elements of the allowedProjects array of a request.
BodyItems == {Str(Foo), Str(Bar), Str(PaddedFoo), Str(Blank), Seven}

\* Request bodies: text that is not JSON, null, 5, an object without
\* allowedProjects, an object whose allowedProjects is a string, and objects
\* whose allowedProjects is an array.
Bodies ==
  {Json("unparseable", "undefined", <<>>), Json("null", "undefined", <<>>),
   Json("scalar", "undefined", <<>>), Json("object", "undefined", <<>>),
   Json("object", "string", <<>>)}
  \cup UNION {{Json("object", "array", l) : l \in [1..n -> BodyItems]}
              : n \in 0..MaxItems}

\* Array.isArray(allowedProjects), allowedProjects being body.allowedProjects
IsArray(body) == body.kind \in {"object", "scalar"} /\ body.type = "array"

\* A test of the elements that lets every array through.
AnyItems(items) == TRUE

\* allowedProjects.every(item => typeof item === 'string')
AllStrings(items) == \A i \in 1..Len(items) : items[i].t = "string"

\* A trim that returns the string as it is.
NoTrim(s) == s

\* p.trim()
RECURSIVE TrimStart(_)
TrimStart(s) == IF s # <<>> /\ Head(s) = " " THEN TrimStart(Tail(s)) ELSE s
RECURSIVE TrimEnd(_)
TrimEnd(s) ==
  IF s # <<>> /\ s[Len(s)] = " " THEN TrimEnd(SubSeq(s, 1, Len(s) - 1)) ELSE s
Trim(s) == TrimEnd(TrimStart(s))

\* p.length > 0
NonEmpty(s) == Len(s) > 0

\* [...new Set(list)]: the first occurrence of every element, in order.
RECURSIVE Unique(_)
Unique(list) ==
  IF list = <<>> THEN <<>>
  ELSE LET rest == Unique(SubSeq(list, 1, Len(list) - 1))
           last == list[Len(list)]
       IN IF \E i \in 1..Len(rest) : rest[i] = last THEN rest
          ELSE Append(rest, last)

\* [...new Set(allowedProjects.map(p => p.trim()).filter(p => p.length > 0))]
UniqueProjects(items) ==
  Unique(SelectSeq([i \in 1..Len(items) |-> Trim(items[i].s)], NonEmpty))

\* POST /api/config with the given body. request.json() throws on text that
\* is not JSON and the destructuring throws on null: both reach the catch
\* (500). A value that is not an array, or an array with an element that is
\* not a string, is answered 400. Otherwise the normalised list is written
\* (200); p.trim or writeFileSync throwing reaches the catch.
Post(body) ==
  /\ EventLoopFree
  /\ IF body.kind \in {"unparseable", "null"}
       THEN response' = "500" /\ UNCHANGED configFile
       ELSE IF ~IsArray(body) \/ ~AllStrings(body.items)
         THEN response' = "400" /\ UNCHANGED configFile
         ELSE IF \E i \in 1..Len(body.items) : body.items[i].t # "string"
           THEN response' = "500" /\ UNCHANGED configFile
           ELSE \/ /\ configFile' = ArrayOf(UniqueProjects(body.items))
                   /\ response' = "200"
                \/ /\ response' = "500"
                   /\ UNCHANGED configFile
  /\ reply' = IF response' = "200" THEN configFile' ELSE NoRequest
  /\ request' = body
  /\ call' = CallOf("post", FALSE)
  /\ returned' = "none"
  /\ UNCHANGED <<files, cachedDbPath, mpc, locals, history, reader>>

\* Bodies posted while the manager is in use: the lists the settings page
\* sends, an object without allowedProjects, and null.
ManagerBodies ==
  {ArrayOf(l) : l \in AllowLists}
  \cup {Json("object", "undefined", <<>>), Json("null", "undefined", <<>>)}

ConfigPost == \E body \in ManagerBodies : Post(body)

ManagerNext ==
  \/ GetShadowDbPath
  \/ ResetShadowDb
  \/ MakeTempDir
  \/ CopySource
  \/ ReadAllowList
  \/ Copy
  \/ Open
  \/ BaselineCount
  \/ Attribute
  \/ DeleteComposer
  \/ DeleteBubbles
  \/ DeleteContexts
  \/ DeleteAll
  \/ Vacuum
  \/ FinalCount
  \/ AfterFilter
  \/ IdeWrite
  \/ RemoveTemp
  \/ ConfigPost

SpecManager == ManagerInit /\ [][ManagerNext]_vars

\* ------------------------------------------------------------ a list/search request
\* fs.existsSync(globalDbPath)
ExistsSync(path) ==
  \/ path = "original" /\ originalExists
  \/ path = "shadow" /\ shadowExists
  \/ path = "filtered" /\ filteredExists

\* GET of the tabs route starts: const globalDbPath = getShadowDbPath().
ReaderCall ==
  /\ rpc \in {"idle", "opened", "missing", "failed"}
  /\ EventLoopFree
  /\ Enter("get", cachedDbPath)
  /\ rpc' = "calling"
  /\ rpath' = "none"

\* getShadowDbPath has returned into the handler, which goes on to
\* await fs.readdir(workspacePath, ...) and gives up the event loop there; a
\* throw of getShadowDbPath lands in the handler's catch, which answers 500.
ReaderAwait ==
  /\ rpc = "calling"
  /\ mpc = "idle"
  /\ IF returned = "threw"
       THEN rpc' = "failed" /\ rpath' = "none"
       ELSE rpc' = "awaiting" /\ rpath' = returned
  /\ UNCHANGED <<files, configFile, cachedDbPath, mpc, call, returned,
                 exchange, locals, history>>

\* The directory read is over and the handler goes on:
\* if (existsSync(globalDbPath)) { globalDb = new Database(globalDbPath, ...)
\* and otherwise the answer without the global store.
ReaderOpen ==
  /\ rpc = "awaiting"
  /\ EventLoopFree
  /\ rpc' = IF ExistsSync(rpath) THEN "opened" ELSE "missing"
  /\ UNCHANGED <<files, configFile, cachedDbPath, mpc, call, returned,
                 exchange, locals, history, rpath>>

\* List/search requests, refreshes and configuration writes of one server
\* process, the source store being there.
RequestsInit == ManagerInit /\ originalExists

RequestsNext ==
  \/ ReaderCall
  \/ ReaderAwait
  \/ ReaderOpen
  \/ ResetShadowDb
  \/ MakeTempDir
  \/ CopySource
  \/ ReadAllowList
  \/ Copy
  \/ Open
  \/ BaselineCount
  \/ Attribute
  \/ DeleteComposer
  \/ DeleteBubbles
  \/ DeleteContexts
  \/ DeleteAll
  \/ Vacuum
  \/ FinalCount
  \/ AfterFilter
  \/ ConfigPost

SpecRequests == RequestsInit /\ [][RequestsNext]_vars

\* The config endpoint by itself, with every body.
AnyPost == \E body \in Bodies : Post(body)

\* The default config of GET.
DefaultConfig == ArrayOf(<<>>)

\* GET /api/config: the parsed content of config.json whatever it is, the
\* default config when there is no file, 500 when JSON.parse throws.
ConfigGet ==
  /\ EventLoopFree
  /\ IF configFile.kind = "unparseable"
       THEN response' = "500" /\ reply' = NoRequest
       ELSE /\ response' = "200"
            /\ reply' = IF configFile.kind = "absent" THEN DefaultConfig
                         ELSE configFile
  /\ request' = NoRequest
  /\ call' = CallOf("read", FALSE)
  /\ returned' = "none"
  /\ UNCHANGED <<files, configFile, cachedDbPath, mpc, locals, history, reader>>

ConfigNext == AnyPost \/ ConfigGet

\* The endpoint does not look at the stores: take the source as absent.
ConfigInit == ManagerInit /\ ~originalExists

SpecConfig == ConfigInit /\ [][ConfigNext]_vars

\* ------------------------------------------------------------ properties
Returned == pc = "returned"
Succeeded == pc = "returned" /\ result = "true"
InFilteredFamily(r) == \E f \in FilteredFamilies : KeyLike(r, f)
HasComposerRow(db, c) ==
  \E r \in RowsOfFamily(db, "composerData") : ComposerIdOf(r) = c

\* C1 as stated: after a pass with a non-empty allow-list that reports
\* success, the destination holds no composerData:, bubbleId: or
\* messageRequestContext: record of a conversation outside the
\* allowed-conversation set.
C1_Original ==
  (Succeeded /\ Len(allowedProjects) > 0)
    => \A r \in filteredDb : InFilteredFamily(r) => ComposerIdOf(r) \in allowedComposerIds

\* C1, amended: after a pass with a non-empty allow-list that reports
\* success, the destination holds no bubbleId: or messageRequestContext:
\* record of a conversation outside the allowed-conversation set, orphans
\* included, and no composerData: record of one unless the composerData
\* delete statement failed (that failure is caught and the pass goes on).
C1_ReferentialCleanup ==
  (Succeeded /\ Len(allowedProjects) > 0)
    => \A r \in filteredDb :
         /\ (KeyLike(r, "bubbleId") \/ KeyLike(r, "messageRequestContext"))
              => ComposerIdOf(r) \in allowedComposerIds
         /\ KeyLike(r, "composerData")
              => (ComposerIdOf(r) \in allowedComposerIds \/ "deleteComposer" \in raised)

\* C1, its case: a successful pass that kept a conversation, removed the
\* composerData: record of another and removed an orphaned record.
C1_Witness ==
  /\ Succeeded /\ Len(allowedProjects) > 0
  /\ allowedComposerIds # {}
  /\ \E r \in shadowDb \ filteredDb : KeyLike(r, "composerData")
  /\ \E r \in shadowDb \ filteredDb :
        /\ KeyLike(r, "bubbleId") \/ KeyLike(r, "messageRequestContext")
        /\ ~ HasComposerRow(shadowDb, ComposerIdOf(r))

\* Some string of the conversation's own records names an allowed project:
\* a root path of its context records, a path of its composerData record or
\* of a bubble record stored under its id, raw or normalised.
Mentions(path, allowed) ==
  \E i \in 1..Len(allowed) :
     Includes(path, allowed[i]) \/ Includes(NormalizePath(path), allowed[i])
AnyMentions(paths, allowed) == \E i \in 1..Len(paths) : Mentions(paths[i], allowed)
OwnSignal(db, c, allowed) ==
  \/ AnyMentions(ProjectLayoutsMap(db, c), allowed)
  \/ \E r \in {q \in db : Len(Key(q)) >= 2 /\ ComposerIdOf(q) = c} :
        \/ \E i \in 1..Len(Value(r).newlyCreatedFiles) :
              Mentions(Value(r).newlyCreatedFiles[i].path, allowed)
        \/ AnyMentions(Value(r).codeBlockData, allowed)
        \/ AnyMentions(Value(r).relevantFiles, allowed)
        \/ AnyMentions(Value(r).attachedFileCodeChunksUris, allowed)
        \/ AnyMentions(Value(r).fileSelections, allowed)

\* C2 as stated, for the passes whose composerData delete did not fail:
\* after a successful pass with a non-empty allowed-conversation set, every
\* record of the three families of an allowed conversation is still in the
\* destination, and the records of a conversation with no matching signal
\* are all deleted.
C2_Original ==
  (Succeeded /\ allowedComposerIds # {} /\ "deleteComposer" \notin raised)
    => /\ \A r \in shadowDb :
            (InFilteredFamily(r) /\ ComposerIdOf(r) \in allowedComposerIds)
              => r \in filteredDb
       /\ \A r \in filteredDb :
            InFilteredFamily(r) => OwnSignal(shadowDb, ComposerIdOf(r), allowedProjects)

Copied == pc # "copy" /\ "copy" \notin raised

\* C4: with an empty allow-list the pass deletes no record (the destination
\* holds the rows of the source, and the final count equals the baseline),
\* and VACUUM has run before the final count.
C4_NoFilterPassthrough ==
  Len(allowedProjects) = 0
    => /\ Copied => filteredDb = shadowDb
       /\ pc = "finalCount" => vacuumed
       /\ Succeeded => /\ vacuumed
                       /\ remainingCount = totalCount
                       /\ remainingCount = Cardinality(shadowDb)
                       /\ deletedCount = 0

\* C4, its case: a successful pass with an empty allow-list over a store
\* that holds conversation records.
C4_Witness ==
  /\ Succeeded /\ Len(allowedProjects) = 0
  /\ \A f \in FilteredFamilies : RowsOfFamily(shadowDb, f) # {}

\* C5: once copied, every record outside the composerData:, bubbleId: and
\* messageRequestContext: families stays in the destination, at every step
\* and for every allow-list, the empty-match case included.
C5_OtherFamiliesUntouched ==
  Copied => \A r \in shadowDb : ~ InFilteredFamily(r) => r \in filteredDb

\* C5, its case: an empty-match pass that removed conversation records and
\* kept the codeBlockDiff: record of an excluded conversation.
C5_Witness ==
  /\ Succeeded /\ Len(allowedProjects) > 0 /\ allowedComposerIds = {}
  /\ \E r \in filteredDb : KeyLike(r, "codeBlockDiff")
  /\ \E r \in shadowDb \ filteredDb : ComposerIdOf(r) = "B"

\* The conversation has a composerData: record that parses to an object and
\* its iteration of the attribution loop has ended.
Processed(c) ==
  /\ attribution[c].outcome # "none"
  /\ \E r \in RowsOfFamily(shadowDb, "composerData") :
        ComposerIdOf(r) = c /\ Value(r).kind = "object"
ComposerValue(c) ==
  Value(CHOOSE r \in RowsOfFamily(shadowDb, "composerData") : ComposerIdOf(r) = c)
\* Indexes of the root paths of c that are elements of the allow-list.
RootHits(c) ==
  {i \in 1..Len(ProjectLayoutsMap(shadowDb, c)) :
     ArrayIncludes(allowedProjects, ProjectLayoutsMap(shadowDb, c)[i])}
Least(S) == CHOOSE i \in S : \A j \in S : i <= j
\* projectId of c was set at step s of the cascade.
AttributedAt(c, s) == attribution[c].outcome = "matched" /\ attribution[c].step = s

\* C6: a conversation with a root path that is an allowed project is
\* attributed at step 1 to the first such root path, in root-path order,
\* whatever its file paths say; steps 2-4 decide (or fail) only when no
\* root path matches.
C6_ProjectLayoutsWin ==
  \A c \in ConversationIds :
     Processed(c) =>
       /\ RootHits(c) # {} =>
            attribution[c] =
              [outcome |-> "matched",
               project |-> ProjectLayoutsMap(shadowDb, c)[Least(RootHits(c))],
               step |-> 1]
       /\ (attribution[c].outcome = "threw" \/ \E s \in 2..4 : AttributedAt(c, s))
            => RootHits(c) = {}

\* C6, its case: a conversation attributed at step 1 whose newlyCreatedFiles
\* holds a path that matches another allowed project.
C6_Witness ==
  \E c \in ConversationIds :
     /\ Processed(c)
     /\ AttributedAt(c, 1)
     /\ \E i \in 1..Len(ComposerValue(c).newlyCreatedFiles) :
           /\ ComposerValue(c).newlyCreatedFiles[i].tag = "file"
           /\ MatchPath(ComposerValue(c).newlyCreatedFiles[i].path, allowedProjects)
                \notin {NoProject, attribution[c].project}

\* Indexes of the root paths of c that contain an allowed name.
RootSubstringHits(c) ==
  {i \in 1..Len(ProjectLayoutsMap(shadowDb, c)) :
     \E k \in 1..Len(allowedProjects) :
        Includes(ProjectLayoutsMap(shadowDb, c)[i], allowedProjects[k])}

\* C7 as stated: step 1 uses substring semantics, so a conversation with a
\* root path that contains an allowed project name is attributed at step 1.
C7_Original ==
  \A c \in ConversationIds :
     (Processed(c) /\ RootSubstringHits(c) # {})
       => AttributedAt(c, 1)

\* The paths steps 2-4 can read for a conversation.
FilePathsOf(c) ==
  {ComposerValue(c).newlyCreatedFiles[i].path :
     i \in {j \in 1..Len(ComposerValue(c).newlyCreatedFiles) :
              ComposerValue(c).newlyCreatedFiles[j].tag = "file"}}
  \cup {ComposerValue(c).codeBlockData[i] : i \in 1..Len(ComposerValue(c).codeBlockData)}
  \cup UNION {{Value(r).relevantFiles[i] : i \in 1..Len(Value(r).relevantFiles)}
              \cup {Value(r).attachedFileCodeChunksUris[i] :
                      i \in 1..Len(Value(r).attachedFileCodeChunksUris)}
              \cup {Value(r).fileSelections[i] : i \in 1..Len(Value(r).fileSelections)}
              : r \in RowsOfFamily(shadowDb, "bubbleId")}

\* C7, amended: step 1 tests case-sensitive equality, a conversation being
\* attributed at step 1 exactly when one of its root paths is an element of
\* the allow-list (a root path that only contains an allowed name does not
\* match there); steps 2-4 use case-sensitive substring semantics on the
\* normalised path.
C7_StepOneIsMembership ==
  \A c \in ConversationIds :
     Processed(c) =>
       /\ AttributedAt(c, 1) <=> (RootHits(c) # {})
       /\ (\E s \in 2..4 : AttributedAt(c, s)) =>
            /\ ArrayIncludes(allowedProjects, attribution[c].project)
            /\ \E p \in FilePathsOf(c) :
                  Includes(NormalizePath(p), attribution[c].project)

\* C7, its case: a conversation with a root path that contains an allowed
\* name as a proper substring, and is not attributed at step 1.
C7_Witness ==
  \E c \in ConversationIds :
     /\ Processed(c)
     /\ RootSubstringHits(c) # {}
     /\ RootHits(c) = {}
     /\ ~ AttributedAt(c, 1)

\* Indexes of the headers of c whose bubble record, stored under the id of
\* c, has a path whose normalised form contains an allowed name.
OwnBubbleHits(c) ==
  {i \in 1..Len(ComposerValue(c).fullConversationHeadersOnly) :
     LET r == BubbleRowScoped(shadowDb, c, ComposerValue(c).fullConversationHeadersOnly[i])
     IN r # 0 /\ BubbleMatch(Value(r), allowedProjects) # NoProject}

\* C8 as stated: a conversation with no projectLayouts match and no match
\* in newlyCreatedFiles or codeBlockData is retained when a bubble listed in
\* its headers has a path whose normalised form contains an allowed name.
C8_Original ==
  \A c \in ConversationIds :
     (/\ Processed(c)
      /\ RootSubstringHits(c) = {}
      /\ \A i \in 1..Len(ComposerValue(c).newlyCreatedFiles) :
            MatchPath(ComposerValue(c).newlyCreatedFiles[i].path, allowedProjects) = NoProject
      /\ StepCodeBlockData(ComposerValue(c).codeBlockData, allowedProjects) = NoProject
      /\ OwnBubbleHits(c) # {})
       => attribution[c].outcome = "matched"

\* Exceptions that reach the outer catch of createFilteredDatabase.
FatalSteps ==
  {"copy", "open", "count", "select", "deleteBubbles", "deleteContexts",
   "deleteAll", "vacuum", "finalCount"}

C10_Original ==
  Returned =>
    /\ raised \cap {"copy", "open", "select", "parse", "vacuum", "finalCount"} # {}
         => result = "false"
    /\ result = "true" => (vacuumed /\ ~ dbOpen)

\* C10, amended: the pass never propagates an exception; it returns false
\* exactly when an exception reached its outer handler (raised by the copy,
\* the open, a count, a query of the attribution pass, the bubbleId or
\* messageRequestContext transaction, the delete-all statement or VACUUM),
\* while the exceptions caught locally (a value or entry that does not
\* parse, a TypeError on one conversation, a failed composerData delete) do
\* not fail it; it returns true only after VACUUM and the final count, with
\* the store closed.
C10_NeverRaises ==
  /\ ~ Returned => result = "pending"
  /\ Returned =>
       /\ result \in {"true", "false"}
       /\ (result = "false") <=> (raised \cap FatalSteps # {})
       /\ result = "true" =>
            (vacuumed /\ ~ dbOpen /\ remainingCount = Cardinality(filteredDb))

\* C10, its case: VACUUM threw after records had been deleted, and the pass
\* returned false.
C10_Witness ==
  /\ Returned /\ result = "false"
  /\ "vacuum" \in raised
  /\ filteredDb # shadowDb

\* ------------------------------------------------------------ properties of the manager
\* A call of getShadowDbPath, direct or through resetShadowDb, has returned
\* and nothing has happened since.
Done(op) == mpc = "idle" /\ call.op = op
DoneAny == Done("get") \/ Done("reset")
HasValidCache ==
  \/ cachedDbPath = "shadow" /\ shadowExists
  \/ cachedDbPath = "filtered" /\ filteredExists

\* C11: whatever the manager and the filter do, the source store file is only
\* read: a step that changes its content or its existence is a write of the
\* IDE; while createFilteredDatabase runs, the shadow file stays as it is (the
\* deletes and the VACUUM go to the filtered copy); and the only file the
\* manager removes is the shadow copy, after the filter has returned.
C11_SourceOnlyRead ==
  [][/\ (originalDb' # originalDb \/ originalExists' # originalExists)
          => call'.op = "ide"
     /\ (mpc = "filter" /\ mpc' = "filter") => UNCHANGED <<shadowDb, shadowExists>>
     /\ (shadowExists /\ ~shadowExists')
          => ((mpc = "filter" /\ pc = "returned") \/ call'.op = "rm")
     /\ (filteredExists /\ ~filteredExists') => call'.op = "rm"]_vars

\* A derivation has filtered rows out of the copy and removed the shadow
\* file, and the source is still there.
C11_Witness ==
  /\ DoneAny
  /\ cachedDbPath = "filtered"
  /\ originalExists
  /\ filteredExists
  /\ filteredDb # originalDb
  /\ ~shadowExists

\* C12: a call of getShadowDbPath made while cachedDbPath names an existing
\* file returns that path at once: no file, no cache and no config changes,
\* and no derivation starts, whatever the source and the config hold by now.
C12_CacheHitIsInert ==
  [][(mpc = "idle" /\ call'.op = "get" /\ HasValidCache)
       => /\ mpc' = "idle"
          /\ returned' = cachedDbPath
          /\ UNCHANGED <<files, cachedDbPath, configFile, locals>>]_vars

\* A cache hit on the shadow copy after the IDE has changed the source.
C12_Witness ==
  /\ Done("get")
  /\ call.hadCache
  /\ ~call.copied
  /\ returned = "shadow"
  /\ cachedDbPath = "shadow"
  /\ originalExists
  /\ shadowDb # originalDb

\* C13 as stated: with no valid cached file and the source absent, the call
\* returns the source path without raising, copies nothing, runs no filter
\* and leaves the cache unset.
C13_Original ==
  (Done("get") /\ ~call.hadCache /\ ~originalExists)
    => /\ returned = "original"
       /\ ~call.copied
       /\ call.filter = "none"
       /\ ~HasValidCache

\* C14 as stated: getShadowDbPath never raises.
C14_Original == Done("get") => returned # "threw"

\* config.json is absent or malformed: no file, not JSON, a JSON value that
\* is not an object, or an allowedProjects that is not an array of strings.
Malformed(config) ==
  \/ config.kind \in {"absent", "unparseable", "null", "scalar"}
  \/ config.kind = "object" /\ config.type = "string"
  \/ /\ config.kind = "object"
     /\ config.type = "array"
     /\ \E i \in 1..Len(config.items) : config.items[i].t # "string"

\* The outcome of a derivation with an empty allow-list: the shadow copy,
\* holding the rows of the source, is cached and returned.
ServesShadowCopy ==
  /\ returned = "shadow"
  /\ cachedDbPath = "shadow"
  /\ shadowExists
  /\ shadowDb = originalDb

\* C15 as stated: with config.json absent or malformed, a derivation that
\* copied the source ends exactly as with an empty allow-list.
C15_Original ==
  (Done("get") /\ call.copied /\ Malformed(configFile))
    => (ServesShadowCopy /\ call.filter = "none" /\ call.caught = "none")

\* C16: when the source exists, the copy succeeds and the allow-list read is
\* the empty list, the call caches and returns the shadow path, and the
\* shadow file holds exactly the rows of the source.
C16_EmptyListServesShadow ==
  (DoneAny /\ call.copied /\ GetAllowedProjects(configFile) = EmptyArray)
    => ServesShadowCopy

\* A derivation over a source with rows in it, the allow-list empty.
C16_Witness ==
  /\ Done("get")
  /\ call.copied
  /\ GetAllowedProjects(configFile) = EmptyArray
  /\ originalDb # {}
  /\ returned = "shadow"

\* C17 as stated: when the filter has reported success the call returns the
\* filtered path, the cache holds it and the shadow file is gone.
C17_Original ==
  (DoneAny /\ call.filter = "true")
    => (returned = "filtered" /\ cachedDbPath = "filtered" /\ ~shadowExists)

\* C17: when the filter has reported success and unlinkSync removes the
\* shadow file, the call returns the filtered path, the cache holds it and
\* the shadow file is gone; when unlinkSync throws, the call returns the
\* source path and both files are still there.
C17_FilteredServedUnlessUnlinkThrows ==
  (DoneAny /\ call.filter = "true")
    => IF call.caught = "unlink"
         THEN /\ returned = "original"
              /\ shadowExists
              /\ shadowDb = originalDb
              /\ filteredExists
         ELSE /\ returned = "filtered"
              /\ cachedDbPath = "filtered"
              /\ ~shadowExists
              /\ filteredExists

\* A successful pass that deleted rows, served from the filtered path.
C17_Witness ==
  /\ Done("get")
  /\ call.filter = "true"
  /\ call.caught = "none"
  /\ returned = "filtered"
  /\ filteredDb # originalDb

\* C18: when the filter has reported failure the call caches and returns the
\* shadow path, and the shadow file still holds every row copied from the
\* source: the failed pass wrote to the filtered path only.
C18_FailedFilterServesShadow ==
  (DoneAny /\ call.filter = "false") => ServesShadowCopy

\* A pass that failed after it had deleted rows from the filtered copy.
C18_Witness ==
  /\ Done("get")
  /\ call.filter = "false"
  /\ returned = "shadow"
  /\ filteredExists
  /\ filteredDb # shadowDb

\* The cache names a working copy made from the source as it is now.
CacheFreshlyDerived ==
  /\ HasValidCache
  /\ returned = cachedDbPath
  /\ cachedDbPath = "shadow" => shadowDb = originalDb
  /\ cachedDbPath = "filtered" => filteredDb \subseteq originalDb

\* C19 as stated: when resetShadowDb has copied the source, the cache is set
\* again, to a copy made from the current source, before it returns.
C19_Original ==
  (Done("reset") /\ call.copied) => CacheFreshlyDerived

\* C19: resetShadowDb clears the cache and derives again before it returns,
\* even when the file cached before is still there: when the source exists
\* and neither mkdirSync nor copyFileSync throws, the source is copied anew;
\* the cache then names the fresh copy, unless the derivation ended in the
\* catch after the copy (allowedProjects is not an array, or unlinkSync
\* threw), in which case the cache stays unset and the source path is
\* returned.
C19_ResetRederives ==
  (Done("reset") /\ originalExists /\ returned # "threw" /\ call.caught # "copy")
    => /\ call.copied
       /\ IF call.caught = "none"
            THEN CacheFreshlyDerived
            ELSE returned = "original" /\ cachedDbPath = NoPath

\* A reset made while the cached file existed, ending with the cache set.
C19_Witness ==
  /\ Done("reset")
  /\ call.hadCache
  /\ call.copied
  /\ call.caught = "none"
  /\ originalDb # {}
  /\ CacheFreshlyDerived

\* A body whose allowedProjects is not an array, or is an array with an
\* element that is not a string.
Rejectable(body) ==
  /\ body.kind \in {"object", "scalar"}
  /\ \/ body.type # "array"
     \/ \E i \in 1..Len(body.items) : body.items[i].t # "string"

\* C20: a config write whose allowedProjects is not an array, or is an array
\* with an element that is not a string, is answered 400 and leaves
\* config.json as it was.
C20_InvalidWriteRejected ==
  [][(mpc = "idle" /\ call'.op = "post" /\ Rejectable(request'))
       => (response' = "400" /\ configFile' = configFile)]_vars

\* A rejected write while config.json holds a list of names.
C20_Witness ==
  /\ Done("post")
  /\ Rejectable(request)
  /\ response = "400"
  /\ configFile.kind = "object"
  /\ configFile.type = "array"
  /\ configFile.items # <<>>

\* The name s without the blanks around it: what lies between its first and
\* its last token that is not a blank.
Stripped(s) ==
  LET solid == {i \in 1..Len(s) : s[i] # " "}
  IN IF solid = {} THEN <<>>
     ELSE SubSeq(s, CHOOSE i \in solid : \A j \in solid : i <= j,
                    CHOOSE i \in solid : \A j \in solid : j <= i)

\* The stripped names of the first n items, without the empty ones and
\* without a name that an earlier item has already given.
RECURSIVE NamesUpTo(_, _)
NamesUpTo(items, n) ==
  IF n = 0 THEN <<>>
  ELSE LET name == Stripped(items[n].s)
       IN IF name = <<>> \/ \E j \in 1..(n - 1) : Stripped(items[j].s) = name
            THEN NamesUpTo(items, n - 1)
            ELSE Append(NamesUpTo(items, n - 1), name)

\* C21: a config write answered 200 stores the submitted names trimmed,
\* without the empty ones and without duplicates, in the order of their
\* first occurrence, and sends that config back; writing the stored list
\* again leaves config.json as it is; a config read after the write returns
\* exactly the stored config.
C21_WriteNormalises ==
  [][/\ (mpc = "idle" /\ call'.op = "post" /\ response' = "200")
          => /\ configFile' = ArrayOf(NamesUpTo(request'.items, Len(request'.items)))
             /\ reply' = configFile'
             /\ request' = configFile => configFile' = configFile
     /\ (Done("post") /\ response = "200" /\ call'.op = "read")
          => /\ response' = "200"
             /\ reply' = configFile
             /\ configFile' = configFile]_vars

\* A write of a padded name and the same name bare, stored as one name.
C21_Witness ==
  /\ Done("post")
  /\ response = "200"
  /\ request.items = <<Str(PaddedFoo), Str(Foo)>>
  /\ configFile = ArrayOf(<<Foo>>)

\* C22 as stated: a malformed record or element met during attribution is no
\* signal from that record only: no conversation's iteration ends in an
\* exception, so its remaining signals and steps are evaluated.
C22_Original ==
  \A c \in ConversationIds : attribution[c].outcome # "threw"

DeleteSteps == {"deleteComposer", "deleteBubbles", "deleteContexts", "deleteAll"}

\* C23 as stated: a pass in which nothing but deletes failed goes on to the
\* VACUUM and reports success.
C23_Original ==
  (Returned /\ raised \cap DeleteSteps # {} /\ raised \subseteq (DeleteSteps \cup {"parse"}))
    => (result = "true" /\ vacuumed)

TransactionFamilies == {"bubbleId", "messageRequestContext"}
TransactionStep(family) ==
  IF family = "bubbleId" THEN "deleteBubbles" ELSE "deleteContexts"

\* C24: once the copy is made, the bubbleId: and messageRequestContext:
\* records of the destination are, at every moment, either all the records
\* the source has in the family or only records of allowed conversations;
\* after a failure of the family's transaction they are all the records the
\* source has.
C24_FamilyDeleteAtomic ==
  Copied =>
    \A family \in TransactionFamilies :
       LET before == RowsOfFamily(shadowDb, family)
           now == RowsOfFamily(filteredDb, family)
       IN /\ now \subseteq before
          /\ now = before \/ \A r \in now : ComposerIdOf(r) \in allowedComposerIds
          /\ TransactionStep(family) \in raised => now = before

\* The bubbleId transaction failed with two records to delete, after the
\* composerData delete had removed a record.
C24_Witness ==
  /\ Returned
  /\ "deleteBubbles" \in raised
  /\ filteredDb # shadowDb
  /\ Cardinality(FamilyRowsToDelete(filteredDb, "bubbleId", allowedComposerIds)) >= 2

\* C26 as stated: after a successful pass deletedCount is the baseline count
\* minus the final count.
C26_Original ==
  Succeeded => deletedCount = totalCount - remainingCount

\* C27 as stated: a conversation attributed at step 4 has, among the bubbles
\* its headers list, a record stored under its own id that matches.
C27_Original ==
  \A c \in ConversationIds :
     (Processed(c) /\ AttributedAt(c, 4)) => OwnBubbleHits(c) # {}

\* C28 as stated: a successful pass over the output of a successful pass,
\* with the same allow-list, deletes no record.
C28_Original ==
  (run = 2 /\ Succeeded /\ previous.result = "true") => filteredDb = shadowDb

\* C25: a request handler starts or goes on after its await, and a derivation
\* starts, only while no derivation is in progress; so under every
\* interleaving of path requests and refreshes at most one derivation is in
\* flight.
C25_OneDerivationInFlight ==
  [][(rpc' # rpc \/ mpc' = "mkdir") => mpc = "idle"]_vars

\* C25, its case: a list request is suspended in its directory read, holding
\* a path, while the derivation started by a refresh is filtering.
C25_Witness ==
  /\ rpc = "awaiting"
  /\ call.op = "reset"
  /\ mpc = "filter"
  /\ pc = "attribute"

\* C30: the cached path is always unset, the shadow path or the filtered
\* path; a step that sets the cache is the return of a call, returns the
\* cached path, and leaves the cached file in place; a returned shadow or
\* filtered path is the cached path of an existing file; and a call of
\* getShadowDbPath that changes the cache returns the cached path, so one
\* that returns the source path has left the cache as it was.
C30_CacheDiscipline ==
  /\ [](cachedDbPath \in {NoPath, "shadow", "filtered"})
  /\ []((DoneAny /\ returned \in {"shadow", "filtered"}) =>
           (returned = cachedDbPath /\ ExistsSync(cachedDbPath)))
  /\ [][((cachedDbPath' # cachedDbPath /\ cachedDbPath' # NoPath) =>
            (/\ call'.op \in {"get", "reset"}
             /\ mpc' = "idle"
             /\ returned' = cachedDbPath'
             /\ ExistsSync(cachedDbPath)'))
        /\ ((call'.op = "get" /\ cachedDbPath' # cachedDbPath) =>
              returned' = cachedDbPath')
        /\ ((call'.op = "get" /\ mpc' = "idle" /\ returned' = "original") =>
              cachedDbPath' = cachedDbPath)]_vars

\* C30, its case: the filtered path was cached and its file removed; the next
\* call derived again, failed to delete the shadow copy, returned the source
\* path and left the cache on the filtered path.
C30_Witness ==
  /\ Done("get")
  /\ returned = "original"
  /\ call.caught = "unlink"
  /\ cachedDbPath = "filtered"

\* C29 as stated: with the source store there, the path a list/search request
\* got names an existing file when the request comes to open it.
C29_Original ==
  originalExists => rpc # "missing"

====
